---- MODULE Spec2Model ----
(***************************************************************************)
(* Model of src/main.rs: a runner that starts N shell commands in          *)
(* parallel, prints their output line by line and kills the children when  *)
(* the interrupt handler calls TaskControl::stop.                          *)
(*                                                                         *)
(* Strings are sequences of one-character strings.  An Option<T> is a      *)
(* sequence of length 0 (None) or 1 (Some).                                *)
(***************************************************************************)
EXTENDS Integers, Sequences, FiniteSets, TLC

(* ---------------------------- bounds ----------------------------------- *)
\* number of chunks (lines or undecodable chunks) the children write at most
MaxLines == 2
\* longest command string given to parse_command
MaxCmdLen == 5

\* the indices of args.commands: a command line of two commands, so that
\* every task has a sibling
Tasks == {0, 1}
Streams == {"stdout", "stderr"}

None == <<>>
Some(x) == <<x>>

(* ------------------------- the inputs ---------------------------------- *)
\* "s": a command that never exits on its own; "p": one that does.
CmdSleep == <<"s">>
CmdLabelled == <<"[", "x", "]", ":", "p">>
RawCommands == {CmdSleep, CmdLabelled}

\* the command strings parse_command is tried on: every string of at most
\* MaxCmdLen characters over the characters it looks at and one other
ParseAlphabet == {"[", "]", ":", "c"}

RECURSIVE StringsOfLen(_)
StringsOfLen(n) ==
    IF n = 0 THEN {<<>>}
    ELSE {Append(s, c) : s \in StringsOfLen(n - 1), c \in ParseAlphabet}

ParseInputs == UNION {StringsOfLen(n) : n \in 0 .. MaxCmdLen}

\* what a child can write: bytes that are not UTF-8, or the next line of
\* its script (the lines differ, so a reordering or a repetition shows)
BadBytes == <<"\\xff">>
Script == << <<"a", "\n">>, <<" ", "b", " ", "\n">>, <<"c", " ", "\n">>, <<"\t", "d", "\n">> >>
ScriptLine(k) == Script[((k - 1) % Len(Script)) + 1]

(* ------------------------- pure functions ------------------------------ *)
Range(f) == {f[i] : i \in DOMAIN f}

Slice(s, from, to) == [i \in 1 .. (to - from + 1) |-> s[from + i - 1]]

\* str::find: the index of the first occurrence of c, 0 when there is none
RECURSIVE FindFrom(_, _, _)
FindFrom(s, c, i) ==
    IF i > Len(s) THEN 0
    ELSE IF s[i] = c THEN i
    ELSE FindFrom(s, c, i + 1)

Find(s, c) == FindFrom(s, c, 1)

\* the index of the first "]:" at or after i, 0 when there is none
RECURSIVE FindCloser(_, _)
FindCloser(s, i) ==
    IF i + 1 > Len(s) THEN 0
    ELSE IF s[i] = "]" /\ s[i + 1] = ":" THEN i
    ELSE FindCloser(s, i + 1)

\* a parser that looks for the first "]:" instead of the first "]"
parse_command_pattern(value) ==
    LET end_bracket == FindCloser(value, 1) IN
    IF Len(value) >= 1 /\ value[1] = "[" /\ end_bracket # 0
    THEN [command |-> Slice(value, end_bracket + 2, Len(value)),
          prefix  |-> Some(Slice(value, 2, end_bracket - 1))]
    ELSE [command |-> value, prefix |-> None]

parse_command(value) ==
    LET end_bracket == Find(value, "]") IN
    IF /\ Len(value) >= 1
       /\ value[1] = "["
       /\ end_bracket # 0
       /\ end_bracket + 1 <= Len(value)
       /\ value[end_bracket + 1] = ":"
    THEN [command |-> Slice(value, end_bracket + 2, Len(value)),
          prefix  |-> Some(Slice(value, 2, end_bracket - 1))]
    ELSE [command |-> value, prefix |-> None]

Palette == <<"red", "green", "yellow", "blue", "magenta", "cyan">>

\* ColoredString::to_string: the text between a colour code and a reset
colorize(str, i) == <<Palette[(i % 6) + 1]>> \o str \o <<"reset">>

IsWhite(c) == c \in {" ", "\n", "\r", "\t"}

RECURSIVE TrimStart(_)
TrimStart(s) ==
    IF s # <<>> /\ IsWhite(Head(s)) THEN TrimStart(Tail(s)) ELSE s

RECURSIVE TrimEnd(_)
TrimEnd(s) ==
    IF s # <<>> /\ IsWhite(s[Len(s)]) THEN TrimEnd(SubSeq(s, 1, Len(s) - 1)) ELSE s

\* str::trim removes the white space of both ends
Trim(s) == TrimEnd(TrimStart(s))

\* the text one print! of command_print writes
Render(prefix, line) ==
    IF prefix # None
    THEN <<"[">> \o prefix[1] \o <<"]", " ">> \o Trim(line) \o <<"\r", "\n">>
    ELSE Trim(line) \o <<"\r", "\n">>

(* ----------------------------- state ----------------------------------- *)
VARIABLES
    commands,    \* args.commands
    no_prefix,   \* args.no_prefix
    parsed,      \* per task: the (command, prefix) that Task::start parsed
    stopped,     \* TaskControl.stopped
    notified,    \* per task: the Notified future of its is_stopped()
    pc,          \* per task: where Task::start is
    child,       \* per task: its child process
    pipe,        \* per task and stream: what is written and not yet read
    written,     \* per task and stream: everything the child wrote
    emitted,     \* per task and stream: what command_print printed
    eof,         \* per task and stream: read_line has returned Ok(0)
    branch,      \* per task: the arm of select! that completed
    killIssued,  \* per task: child.kill() was called
    result,      \* per task: what Task::start returned
    mainpc,      \* where main is
    reported     \* the tasks main printed "Task error" for

vars == <<commands, no_prefix, parsed, stopped, notified, pc, child, pipe,
          written, emitted, eof, branch, killIssued, result, mainpc, reported>>

\* the locals of Task::start
TaskCommand(t) == parse_command(commands[t]).command

TaskPrefix(t) ==
    LET p == parse_command(commands[t]).prefix IN
    IF p # None THEN Some(colorize(p[1], t)) ELSE None

\* what bash does with the command text
NeverExits(t) == TaskCommand(t) = CmdSleep

Init ==
    /\ commands \in [Tasks -> RawCommands]
    /\ no_prefix \in BOOLEAN
    /\ parsed = [t \in Tasks |-> None]
    /\ stopped = FALSE
    /\ notified = [t \in Tasks |-> "none"]
    /\ pc = [t \in Tasks |-> "new"]
    /\ child = [t \in Tasks |-> "none"]
    /\ pipe = [t \in Tasks |-> [s \in Streams |-> <<>>]]
    /\ written = [t \in Tasks |-> [s \in Streams |-> <<>>]]
    /\ emitted = [t \in Tasks |-> [s \in Streams |-> <<>>]]
    /\ eof = [t \in Tasks |-> [s \in Streams |-> FALSE]]
    /\ branch = [t \in Tasks |-> "none"]
    /\ killIssued = [t \in Tasks |-> FALSE]
    /\ result = [t \in Tasks |-> "none"]
    /\ mainpc = "joining"
    /\ reported = {}

(* ------------------------ the interrupt handler ------------------------ *)
\* Notify::notify_waiters wakes the Notified futures that exist at the call
notify_waiters(n) == [t \in Tasks |-> IF n[t] = "waiting" THEN "fired" ELSE n[t]]

\* a stop() that flips the flag instead of setting it
stop_toggle ==
    /\ mainpc = "joining"
    /\ stopped' = ~stopped
    /\ notified' = notify_waiters(notified)
    /\ UNCHANGED <<commands, no_prefix, parsed, pc, child, pipe, written, emitted, eof,
                   branch, killIssued, result, mainpc, reported>>

\* TaskControl::stop, run by the interrupt handler, any number of times.  No
\* task reads the flag before its Notified future has fired, so the store and
\* the wake-up are one step.
stop ==
    /\ mainpc = "joining"
    /\ stopped' = TRUE
    /\ notified' = notify_waiters(notified)
    /\ UNCHANGED <<commands, no_prefix, parsed, pc, child, pipe, written, emitted, eof,
                   branch, killIssued, result, mainpc, reported>>

(* ------------------------------ Task::start ---------------------------- *)
\* a task that cancels the whole run when its spawn fails
Start_cancels(t) ==
    /\ mainpc = "joining"
    /\ pc[t] = "new"
    /\ parsed' = [parsed EXCEPT ![t] = Some(parse_command(commands[t]))]
    /\ \/ /\ child' = [child EXCEPT ![t] = "running"]
          /\ pc' = [pc EXCEPT ![t] = "select"]
          /\ UNCHANGED <<result, stopped, notified>>
       \/ /\ pc' = [pc EXCEPT ![t] = "done"]
          /\ result' = [result EXCEPT ![t] = "Err"]
          /\ stopped' = TRUE
          /\ notified' = notify_waiters(notified)
          /\ UNCHANGED child
    /\ UNCHANGED <<commands, no_prefix, pipe, written, emitted, eof, branch,
                   killIssued, mainpc, reported>>

\* lines 97-111: parse the command, spawn bash, build the four futures
Start(t) ==
    /\ mainpc = "joining"
    /\ pc[t] = "new"
    /\ parsed' = [parsed EXCEPT ![t] = Some(parse_command(commands[t]))]
    /\ \/ /\ child' = [child EXCEPT ![t] = "running"]
          /\ pc' = [pc EXCEPT ![t] = "select"]
          /\ UNCHANGED result
       \/ \* cmd.spawn()? fails
          /\ pc' = [pc EXCEPT ![t] = "done"]
          /\ result' = [result EXCEPT ![t] = "Err"]
          /\ UNCHANGED child
    /\ UNCHANGED <<commands, no_prefix, stopped, notified, pipe,
                   written, emitted, eof, branch, killIssued, mainpc, reported>>

\* a select! whose child.wait() arm also asks for the kill
should_exit_wait(b) == b \in {"stopped", "wait"}

\* the value of the arm of select! that completed
should_exit(b) == b = "stopped"

\* select! completes with arm b: lines 113-124 up to the kill.  The futures
\* of the other arms are dropped with the select!: the Notified future, and the
\* two command_print futures, which own the pipes.
Complete(t, b) ==
    /\ branch' = [branch EXCEPT ![t] = b]
    /\ notified' = [notified EXCEPT ![t] = "dropped"]
    /\ pipe' = [pipe EXCEPT ![t] = [s \in Streams |-> <<>>]]
    /\ eof' = [eof EXCEPT ![t] = [s \in Streams |-> FALSE]]
    /\ IF should_exit(b)
       THEN /\ pc' = [pc EXCEPT ![t] = "kill"]
            /\ UNCHANGED result
       ELSE /\ pc' = [pc EXCEPT ![t] = "done"]
            /\ result' = [result EXCEPT ![t] = "Ok"]

\* a wait arm that gives up on a child that is still running
SelectWait_timeout(t) ==
    /\ pc[t] = "select"
    /\ child[t] \in {"running", "exited"}
    /\ Complete(t, "wait")
    /\ UNCHANGED <<commands, no_prefix, parsed, stopped, child, written, emitted,
                   killIssued, mainpc, reported>>

\* the arm child.wait() is polled and the child has exited
SelectWait(t) ==
    /\ pc[t] = "select"
    /\ child[t] = "exited"
    /\ Complete(t, "wait")
    /\ UNCHANGED <<commands, no_prefix, parsed, stopped, child, written, emitted,
                   killIssued, mainpc, reported>>

\* an is_stopped() that is ready at its first poll, stop() or no stop()
SelectStopped_eager(t) ==
    /\ pc[t] = "select"
    /\ notified[t] \in {"none", "fired"}
    /\ Complete(t, "stopped")
    /\ UNCHANGED <<commands, no_prefix, parsed, stopped, child, written,
                   emitted, killIssued, mainpc, reported>>

\* the arm is_stopped() is polled: its first poll creates the Notified future
SelectStopped(t) ==
    /\ pc[t] = "select"
    /\ \/ /\ notified[t] = "none"
          /\ notified' = [notified EXCEPT ![t] = "waiting"]
          /\ UNCHANGED <<pc, branch, result, pipe, eof>>
       \/ /\ notified[t] = "fired"
          /\ Complete(t, "stopped")
    /\ UNCHANGED <<commands, no_prefix, parsed, stopped, child, written,
                   emitted, killIssued, mainpc, reported>>

\* a reader that returns the newest line first
NextLineNewest(p) == p[Len(p)]

\* the line read_line returns from what is in the pipe
NextLine(p) == Head(p)

\* a reader spawned on its own, which keeps its pipe and goes on printing
\* after the select! has completed
DrainLine_detached(t, s) ==
    /\ pc[t] # "new"
    /\ Len(emitted[t][s]) < Len(written[t][s])
    /\ written[t][s][Len(emitted[t][s]) + 1] # BadBytes
    /\ emitted' = [emitted EXCEPT ![t][s] =
                      Append(@, Render(TaskPrefix(t), written[t][s][Len(@) + 1]))]
    /\ pipe' = [pipe EXCEPT ![t][s] = IF @ = <<>> THEN @ ELSE Tail(@)]
    /\ UNCHANGED <<commands, no_prefix, parsed, stopped, notified, pc, child,
                   written, eof, branch, killIssued, result, mainpc, reported>>

\* command_print, one turn of the loop with Ok(n), n > 0
DrainLine(t, s) ==
    /\ pc[t] = "select"
    /\ pipe[t][s] # <<>>
    /\ NextLine(pipe[t][s]) # BadBytes
    /\ emitted' = [emitted EXCEPT ![t][s] =
                      Append(@, Render(TaskPrefix(t), NextLine(pipe[t][s])))]
    /\ pipe' = [pipe EXCEPT ![t][s] = Tail(@)]
    /\ UNCHANGED <<commands, no_prefix, parsed, stopped, notified, pc, child,
                   written, eof, branch, killIssued, result, mainpc, reported>>

\* command_print, read_line returns Ok(0) at the end of the stream: the
\* "while let Ok(n)" loop goes on, reading Ok(0) again
DrainEof(t, s) ==
    /\ pc[t] = "select"
    /\ child[t] = "exited"
    /\ pipe[t][s] = <<>>
    /\ eof' = [eof EXCEPT ![t][s] = TRUE]
    /\ UNCHANGED <<commands, no_prefix, parsed, stopped, notified, pc, child, pipe,
                   written, emitted, branch, killIssued, result, mainpc, reported>>

\* command_print, read_line returns Err: the loop ends and the arm completes
DrainError(t, s) ==
    /\ pc[t] = "select"
    /\ pipe[t][s] # <<>>
    /\ NextLine(pipe[t][s]) = BadBytes
    /\ Complete(t, s)
    /\ UNCHANGED <<commands, no_prefix, parsed, stopped, child, written, emitted,
                   killIssued, mainpc, reported>>

\* lines 120-122: child.kill().await?
Kill(t) ==
    /\ pc[t] = "kill"
    /\ killIssued' = [killIssued EXCEPT ![t] = TRUE]
    /\ pc' = [pc EXCEPT ![t] = "done"]
    /\ \/ /\ child' = [child EXCEPT ![t] = IF @ = "running" THEN "killed" ELSE @]
          /\ result' = [result EXCEPT ![t] = "Ok"]
       \/ \* the kill fails
          /\ result' = [result EXCEPT ![t] = "Err"]
          /\ UNCHANGED child
    /\ UNCHANGED <<commands, no_prefix, parsed, stopped, notified, pipe,
                   written, emitted, eof, branch, mainpc, reported>>

(* ------------------------------ the children --------------------------- *)
RECURSIVE Sum(_, _)
Sum(f, S) ==
    IF S = {} THEN 0
    ELSE LET x == CHOOSE y \in S : TRUE IN f[x] + Sum(f, S \ {x})

\* the number of chunks the children have written so far
Chunks ==
    Sum([t \in Tasks |-> Len(written[t]["stdout"]) + Len(written[t]["stderr"])], Tasks)

ChildWrite(t, s, l) ==
    /\ child[t] = "running"
    /\ pc[t] = "select"
    /\ Chunks < MaxLines
    /\ l \in {BadBytes, ScriptLine(Len(written[t]["stdout"]) + Len(written[t]["stderr"]) + 1)}
    /\ pipe' = [pipe EXCEPT ![t][s] = Append(@, l)]
    /\ written' = [written EXCEPT ![t][s] = Append(@, l)]
    /\ UNCHANGED <<commands, no_prefix, parsed, stopped, notified, pc, child,
                   emitted, eof, branch, killIssued, result, mainpc, reported>>

ChildExit(t) ==
    /\ child[t] = "running"
    /\ ~NeverExits(t)
    /\ child' = [child EXCEPT ![t] = "exited"]
    /\ UNCHANGED <<commands, no_prefix, parsed, stopped, notified, pc, pipe,
                   written, emitted, eof, branch, killIssued, result, mainpc, reported>>

(* --------------------------------- main -------------------------------- *)
\* what the JoinHandle of task t yields: Ok(what Task::start returned)
JoinResult(t) == [ok |-> TRUE, value |-> result[t]]

\* a main that returns as soon as one task has finished
MainReturn_any ==
    /\ mainpc = "joining"
    /\ \E t \in Tasks : pc[t] = "done"
    /\ reported' = {t \in Tasks : ~JoinResult(t).ok}
    /\ mainpc' = "exited"
    /\ UNCHANGED <<commands, no_prefix, parsed, stopped, notified, pc, child,
                   pipe, written, emitted, eof, branch, killIssued, result>>

\* lines 46-52: join_all, report the Err results, return
MainReturn ==
    /\ mainpc = "joining"
    /\ \A t \in Tasks : pc[t] = "done"
    /\ reported' = {t \in Tasks : ~JoinResult(t).ok}
    /\ mainpc' = "exited"
    /\ UNCHANGED <<commands, no_prefix, parsed, stopped, notified, pc, child,
                   pipe, written, emitted, eof, branch, killIssued, result>>

Next ==
    \/ stop
    \/ MainReturn
    \/ \E t \in Tasks : Start(t)
    \/ \E t \in Tasks : SelectWait(t)
    \/ \E t \in Tasks : SelectStopped(t)
    \/ \E t \in Tasks : Kill(t)
    \/ \E t \in Tasks : ChildExit(t)
    \/ \E t \in Tasks, s \in Streams : DrainLine(t, s)
    \/ \E t \in Tasks, s \in Streams : DrainEof(t, s)
    \/ \E t \in Tasks, s \in Streams : DrainError(t, s)
    \/ \E t \in Tasks, s \in Streams, l \in {BadBytes} \cup Range(Script) : ChildWrite(t, s, l)

Spec == Init /\ [][Next]_vars

\* The runtime polls a task that has been woken, a command that exits on its
\* own does exit, and main resumes when join_all is ready.  The interrupt and
\* what a child writes are up to the environment: no fairness.
FairSpec ==
    /\ Spec
    /\ \A t \in Tasks :
          /\ WF_vars(Start(t))
          /\ WF_vars(SelectWait(t))
          /\ WF_vars(SelectStopped(t))
          /\ WF_vars(Kill(t))
          /\ WF_vars(ChildExit(t))
          /\ \A s \in Streams : WF_vars(DrainLine(t, s)) /\ WF_vars(DrainError(t, s))
    /\ WF_vars(MainReturn)

(* ------------------------------- the claims ---------------------------- *)
\* what command_print prints for the first n chunks of a stream
Rendered(t, s, n) == [i \in 1 .. n |-> Render(TaskPrefix(t), written[t][s][i])]

\* a task whose wait on the signal began after a stop() had returned: stop()
\* fires every Notified future that exists, so one that waits while stopped
\* is true was created after the last stop()
LateWaiter(t) == pc[t] = "select" /\ notified[t] = "waiting" /\ stopped

\* C1: a wait on the cancellation signal that begins after stop() has
\* completed still resolves; it never blocks for ever on the fired signal.
C1_LateWaiterResolves ==
    \A t \in Tasks : LateWaiter(t) ~> (notified[t] # "waiting")

\* C2: every task that stop() finds suspended in its race, with a child that
\* never exits on its own, leaves the race by the cancellation arm and goes on
\* to kill its child; it leaves the race in no other way.
C2_KillOnCancel ==
    [][\A t \in Tasks :
          (pc[t] = "select" /\ notified[t] = "fired" /\ NeverExits(t)
             /\ pc'[t] # "select")
          => (branch'[t] = "stopped" /\ pc'[t] = "kill")]_vars

\* C3: when the program exits after the interrupt handler has called stop(),
\* no spawned child is still running.
C3_NoChildLeftAtExit ==
    (mainpc = "exited" /\ stopped) => \A t \in Tasks : child[t] # "running"

\* C4: a task whose race is resolved by the natural exit of its child returns
\* Ok at once and never issues a kill.
C4_NaturalExitNoKill ==
    \A t \in Tasks :
        branch[t] = "wait" => (pc[t] = "done" /\ ~killIssued[t] /\ result[t] = "Ok")

\* the race of a task ended by natural exit while lines were still unread in
\* the pipe and stop() had not been called
C4_Witness ==
    \E t \in Tasks :
        /\ branch[t] = "wait"
        /\ ~stopped
        /\ written[t]["stdout"] # <<>>
        /\ emitted[t]["stdout"] = <<>>

\* C5: a call of stop() after the first is a no-op: it wakes no waiter and
\* changes nothing a task can observe.
C5_SecondStopNoOp ==
    [][(stopped /\ stop) => UNCHANGED vars]_vars

\* C6: stopped starts false and, once true, is never false again.
C6_StoppedMonotonic ==
    (stopped = FALSE) /\ [][stopped => stopped']_vars

\* stopped is true and a task has gone through cancellation and kill since
C6_Witness ==
    stopped /\ \E t \in Tasks : branch[t] = "stopped" /\ pc[t] = "done"

\* C7: what a task has emitted for a stream is, line by line and in order,
\* the rendering of a prefix of what the child wrote to that stream.
C7_StreamOrder ==
    \A t \in Tasks, s \in Streams :
        /\ Len(emitted[t][s]) <= Len(written[t][s])
        /\ \A i \in 1 .. Len(emitted[t][s]) : written[t][s][i] # BadBytes
        /\ emitted[t][s] = Rendered(t, s, Len(emitted[t][s]))

\* two lines of one stream have been emitted
C7_Witness ==
    \E t \in Tasks, s \in Streams : Len(emitted[t][s]) = 2

\* C8: a labelled command that writes lines and exits on its own, with
\* prefixing on and no cancellation: when the task has returned, every line
\* written has been emitted with its prefix, in order.
C8_OutputFidelity ==
    \A t \in Tasks :
        ( /\ pc[t] = "done"
          /\ branch[t] = "wait"
          /\ ~stopped
          /\ ~no_prefix
          /\ TaskPrefix(t) # None
          /\ \A s \in Streams : \A i \in 1 .. Len(written[t][s]) :
                written[t][s][i] # BadBytes )
        => \A s \in Streams : emitted[t][s] = Rendered(t, s, Len(written[t][s]))

\* C9: with the no-prefix flag set no emitted line carries a prefix.
C9_NoPrefixFlag ==
    no_prefix =>
        \A t \in Tasks, s \in Streams :
            \A i \in 1 .. Len(emitted[t][s]) :
                emitted[t][s][i] = Render(None, written[t][s][i])

\* C10: when the program has exited, every task that ended with a failure
\* (spawn failed, kill failed) has been reported.
C10_FailuresReported ==
    mainpc = "exited" => \A t \in Tasks : result[t] = "Err" => t \in reported

(* --------------------- parse_command on its own ------------------------ *)
\* every task is given the same command string, any of ParseInputs, and the
\* only step is the start of a task, which parses it
InitParse ==
    /\ commands \in {[t \in Tasks |-> v] : v \in ParseInputs}
    /\ no_prefix = FALSE
    /\ parsed = [t \in Tasks |-> None]
    /\ stopped = FALSE
    /\ notified = [t \in Tasks |-> "none"]
    /\ pc = [t \in Tasks |-> "new"]
    /\ child = [t \in Tasks |-> "none"]
    /\ pipe = [t \in Tasks |-> [s \in Streams |-> <<>>]]
    /\ written = [t \in Tasks |-> [s \in Streams |-> <<>>]]
    /\ emitted = [t \in Tasks |-> [s \in Streams |-> <<>>]]
    /\ eof = [t \in Tasks |-> [s \in Streams |-> FALSE]]
    /\ branch = [t \in Tasks |-> "none"]
    /\ killIssued = [t \in Tasks |-> FALSE]
    /\ result = [t \in Tasks |-> "none"]
    /\ mainpc = "joining"
    /\ reported = {}

NextParse == \E t \in Tasks : Start(t)

SpecParse == InitParse /\ [][NextParse]_vars

(* ------------------------- the claims, continued ----------------------- *)
\* task t fails in this step: its spawn or its kill returns Err, or a read of
\* one of its pipes does
Fails(t) ==
    \/ result[t] # "Err" /\ result'[t] = "Err"
    \/ branch[t] = "none" /\ branch'[t] \in Streams

\* C11: a step in which a task fails (spawn, pipe read or kill) leaves the
\* stopped flag and everything of the sibling tasks as it was: their position,
\* their child, their waiter, their pipes and the lines they have emitted.
C11_Isolation ==
    [][\A t \in Tasks :
          Fails(t) =>
            /\ stopped' = stopped
            /\ \A u \in Tasks \ {t} :
                  /\ pc'[u] = pc[u]
                  /\ child'[u] = child[u]
                  /\ notified'[u] = notified[u]
                  /\ pipe'[u] = pipe[u]
                  /\ emitted'[u] = emitted[u]
                  /\ killIssued'[u] = killIssued[u]
                  /\ result'[u] = result[u]]_vars

\* one task failed at its spawn and its sibling ran to a natural exit with
\* its output emitted, no stop() in the run
C11_Witness ==
    \E t \in Tasks, u \in Tasks :
        /\ t # u
        /\ result[t] = "Err" /\ child[t] = "none"
        /\ branch[u] = "wait" /\ result[u] = "Ok"
        /\ emitted[u]["stdout"] # <<>>
        /\ ~stopped

\* C12: main has returned only if every task has reached its end.
C12_ExitAfterAllTasks ==
    mainpc = "exited" => \A t \in Tasks : pc[t] = "done"

\* main has returned after one task failed and the other returned Ok
C12_Witness ==
    /\ mainpc = "exited"
    /\ \E t \in Tasks, u \in Tasks : result[t] = "Err" /\ result[u] = "Ok"

Min(S) == CHOOSE x \in S : \A y \in S : x <= y

\* C13: parse_command answers for every string; when the string starts with
\* "[" and its first "]" is followed at once by ":", the label is the text
\* between them and the command the text after "]:"; in every other case
\* there is no label and the command is the string itself.
C13_ParseCommand ==
    \A t \in Tasks :
        parsed[t] # None =>
            LET v == commands[t]
                r == parsed[t][1]
                closers == {i \in 1 .. Len(v) : v[i] = "]"}
            IN  IF /\ Len(v) >= 1
                   /\ v[1] = "["
                   /\ closers # {}
                   /\ Min(closers) < Len(v)
                   /\ v[Min(closers) + 1] = ":"
                THEN /\ r.prefix = Some(SubSeq(v, 2, Min(closers) - 1))
                     /\ r.command = SubSeq(v, Min(closers) + 2, Len(v))
                ELSE /\ r.prefix = None
                     /\ r.command = v

\* the string "[c]:c", with a label and a command, has been parsed
C13_Witness ==
    \E t \in Tasks :
        /\ parsed[t] # None
        /\ commands[t] = <<"[", "c", "]", ":", "c">>
        /\ parsed[t][1].prefix = Some(<<"c">>)
        /\ parsed[t][1].command = <<"c">>

\* C14: when a read of a stream reports end of input, or fails, the reader
\* stops: its arm of the select! completes in that step, and no line is
\* emitted for that read.
C14_ReaderTerminates ==
    [][\A t \in Tasks, s \in Streams :
          (DrainEof(t, s) \/ DrainError(t, s))
          => (branch'[t] = s /\ emitted' = emitted)]_vars

\* C15: a task that has returned Ok has a child that is no longer running.
C15_OkMeansExited ==
    \A t \in Tasks :
        (pc[t] = "done" /\ result[t] = "Ok") => child[t] # "running"

\* C16: the cancellation wait resolves, the cancellation arm is taken and a
\* child is killed only when stop() has been called.
C16_CancelOnlyAfterStop ==
    \A t \in Tasks :
        (notified[t] = "fired" \/ branch[t] = "stopped" \/ killIssued[t]
           \/ child[t] = "killed")
        => stopped

\* a task has taken the cancellation arm and killed its running child
C16_Witness ==
    \E t \in Tasks : branch[t] = "stopped" /\ killIssued[t] /\ child[t] = "killed"

\* C17: without a stop(), a task whose child never exits and has written
\* nothing stays in its race, and main does not return.
C17_NoTimeout ==
    \A t \in Tasks :
        ( /\ NeverExits(t)
          /\ child[t] # "none"
          /\ ~stopped
          /\ \A s \in Streams : written[t][s] = <<>> )
        => (pc[t] = "select" /\ child[t] = "running" /\ mainpc = "joining")

\* such a task is suspended in its race, its waiter registered, while its
\* sibling has already returned
C17_Witness ==
    \E t \in Tasks :
        /\ NeverExits(t)
        /\ pc[t] = "select"
        /\ notified[t] = "waiting"
        /\ ~stopped
        /\ \A s \in Streams : written[t][s] = <<>>
        /\ \A u \in Tasks \ {t} : pc[u] = "done"

\* the prefix command_print prints before a line
PrefixText(t) ==
    IF TaskPrefix(t) # None THEN <<"[">> \o TaskPrefix(t)[1] \o <<"]", " ">> ELSE <<>>

\* C18: every emitted line is the prefix "[label] " when the task has a
\* label, then the line read with its trailing white space removed and its
\* leading white space kept, then carriage return and newline.
C18_EmittedText ==
    \A t \in Tasks, s \in Streams :
        \A i \in 1 .. Len(emitted[t][s]) :
            emitted[t][s][i] =
                PrefixText(t) \o TrimEnd(written[t][s][i]) \o <<"\r", "\n">>

\* C19: once the select! of a task has completed, no further line of that
\* task is emitted.
C19_NoLineAfterReturn ==
    [][\A t \in Tasks : pc[t] \in {"kill", "done"} => emitted'[t] = emitted[t]]_vars

\* a task has returned with a line emitted and a later line of the same
\* stream left unread
C19_Witness ==
    \E t \in Tasks, s \in Streams :
        /\ pc[t] = "done"
        /\ Len(emitted[t][s]) >= 1
        /\ Len(written[t][s]) > Len(emitted[t][s])

====
